---- MODULE Spec2Model ----
(***************************************************************************)
(* Desktop Commander service orchestrator (src-tauri/src/main.rs):         *)
(* the registry and the process tracker behind their two mutexes, the      *)
(* tauri commands as call frames on per-thread stacks, the auto-restart    *)
(* monitor thread, and the operating system's process table.               *)
(*                                                                         *)
(* A thread takes one step per blocking call (process launch, termination  *)
(* command, network probe, sleep) and per critical section; what a         *)
(* function does between two such points is thread-local and belongs to    *)
(* the step.  A tracker guard is never held across a blocking call or a    *)
(* second lock() in the code, so a tracker section is one step: the lock   *)
(* is taken and dropped within it.  The registry guard of                  *)
(* get_service_status, stop_service and get_all_services_status outlives   *)
(* the step that takes it.                                                 *)
(***************************************************************************)
EXTENDS Naturals, Sequences, FiniteSets, TLC

VARIABLES
    services,       \* AppState.services: HashMap<String, ServiceConfig>
    processes,      \* ProcessTracker.processes: HashMap<String, ProcessInfo>
    services_lock,  \* holder of the Mutex around services, or Free
    tracker_lock,   \* holder of the Mutex around the tracker, or Free
    poisoned,       \* the services Mutex was held by a thread that panicked
    os,             \* the operating system's process table: pid -> process
    stack,          \* per thread: the call frames of the command it runs
    ret,            \* per thread: the value the last returning call produced
    cmd,            \* per thread: the command it was last invoked with
    log,            \* per thread: what its current command (in a batch: the
                    \* current member's call) has done so far
    ops             \* commands invoked and monitor ticks started so far

vars == <<services, processes, services_lock, tracker_lock, poisoned, os,
          stack, ret, cmd, log, ops>>

(***************************************************************************)
(* Bounds of the model.                                                    *)
(***************************************************************************)
MaxOps == 2       \* commands invoked plus monitor ticks started
MaxDashOps == 3   \* the same, of the dashboard's commands alone (SpecDash)
MaxAnyOps == 2    \* commands invoked over either registry (SpecAny)
MaxPairOps == 2   \* commands invoked on two threads at once (SpecPair)
MaxPid == 2       \* processes alive at a time
MaxDepth == 6     \* calls a thread has on its stack
MaxCount == 1     \* restarts counted in a record the resolution starts from

(***************************************************************************)
(* Threads: tauri runs commands concurrently; the monitor has its own.     *)
(***************************************************************************)
CmdThreads == {"cmd1", "cmd2"}
MonThread == "mon"
Threads == CmdThreads \cup {MonThread}
Free == "free"

(***************************************************************************)
(* The registry as AppState::new builds it.  port 0 is None, url "" None.  *)
(***************************************************************************)
Registry ==
    ("web-app" :> [name |-> "web-app", command |-> "npm run dev",
                   working_dir |-> "C:\\dev", port |-> 5173,
                   health_check_url |-> "http://localhost:5173",
                   dependencies |-> <<"backend">>, auto_restart |-> FALSE])
 @@ ("backend" :> [name |-> "backend", command |-> "npm run dev",
                   working_dir |-> "C:\\dev\\backend", port |-> 3000,
                   health_check_url |-> "http://localhost:3000/health",
                   dependencies |-> <<>>, auto_restart |-> FALSE])
 @@ ("trading-bot" :> [name |-> "trading-bot",
                   command |-> ".venv\\Scripts\\python.exe start_live_trading.py",
                   working_dir |-> "C:\\dev\\projects\\crypto-enhanced", port |-> 0,
                   health_check_url |-> "",
                   dependencies |-> <<>>, auto_restart |-> FALSE])
 @@ ("booking-platform" :> [name |-> "booking-platform", command |-> "npm run dev",
                   working_dir |-> "C:\\dev\\projects\\active\\web-apps\\business-booking-platform",
                   port |-> 5174, health_check_url |-> "http://localhost:5174",
                   dependencies |-> <<>>, auto_restart |-> FALSE])
 @@ ("content-builder" :> [name |-> "content-builder", command |-> "npm run dev",
                   working_dir |-> "C:\\dev\\projects\\active\\web-apps\\digital-content-builder",
                   port |-> 5175, health_check_url |-> "http://localhost:5175",
                   dependencies |-> <<>>, auto_restart |-> FALSE])

\* A registry of the same ServiceConfig shape that holds what the built-in one
\* lacks: a chain of dependencies, a service with a port and no URL, and a
\* service with a URL and no port.
RegistryChain ==
    [Registry EXCEPT !["backend"].health_check_url = "",
                     !["backend"].dependencies = <<"trading-bot">>,
                     !["trading-bot"].health_check_url = "http://localhost:8000/health"]

\* A registry of the same shape whose dependencies form a cycle: web-app needs
\* backend and backend needs web-app.
RegistryCycle == [Registry EXCEPT !["backend"].dependencies = <<"web-app">>]

\* A name no ServiceConfig is registered under.
Ghost == "ghost"

(***************************************************************************)
(* Values.                                                                 *)
(***************************************************************************)
NoVal == [k |-> "None", v |-> "none"]
Ok(v) == [k |-> "Ok", v |-> v]
Err(m) == [k |-> "Err", v |-> m]
Panic == [k |-> "Panic", v |-> "PoisonError"]
NotFound == Err("not found")

Frame(fn, pc, name) ==
    [fn |-> fn, pc |-> pc, name |-> name, i |-> 0, aux |-> 0, todo |-> {}, res |-> <<>>]

Top(stk) == stk[Len(stk)]
Pop(stk) == SubSeq(stk, 1, Len(stk) - 1)
Push(stk, f) == Append(stk, f)
SetTop(stk, f) == [stk EXCEPT ![Len(stk)] = f]

Ev(e, s, r) == [e |-> e, s |-> s, r |-> r]

(***************************************************************************)
(* ServiceConfig lookups (fields that never change after construction).    *)
(***************************************************************************)
Registered(s) == s \in DOMAIN services
PortOf(s) == services[s].port
UrlOf(s) == services[s].health_check_url
DepsOf(s) == services[s].dependencies

\* The services that lie on a dependency cycle of the registry.
RECURSIVE Needs(_, _, _)
Needs(s, d, n) ==
    /\ n > 0
    /\ \E i \in 1 .. Len(DepsOf(s)) :
          LET x == DepsOf(s)[i]
          IN x \in DOMAIN services /\ (x = d \/ Needs(x, d, n - 1))

OnCycle == {s \in DOMAIN services : Needs(s, s, Cardinality(DOMAIN services))}

(***************************************************************************)
(* ProcessTracker.                                                         *)
(***************************************************************************)
NewInfo(pid) ==
    [pid |-> pid, restart_count |-> 0, last_health_check |-> FALSE,
     health_status |-> "unknown"]

track_process(trk, s, pid) ==
    [x \in DOMAIN trk \cup {s} |-> IF x = s THEN NewInfo(pid) ELSE trk[x]]

\* A remove_process that leaves the record in place.
remove_process_Kept(trk, s) == trk

remove_process(trk, s) == [x \in DOMAIN trk \ {s} |-> trk[x]]

\* An increment that starts a record at one when the tracker has none.
increment_restart_count_Upsert(trk, s) ==
    IF s \in DOMAIN trk
    THEN [trk EXCEPT ![s].restart_count = @ + 1]
    ELSE [x \in DOMAIN trk \cup {s} |->
             IF x = s THEN [NewInfo(0) EXCEPT !.restart_count = 1] ELSE trk[x]]

increment_restart_count(trk, s) ==
    IF s \in DOMAIN trk
    THEN [trk EXCEPT ![s].restart_count = @ + 1]
    ELSE trk

\* An update_health that records nothing.
update_health_Dropped(trk, s, health) == trk

update_health(trk, s, health) ==
    IF s \in DOMAIN trk
    THEN [trk EXCEPT ![s].health_status = health, ![s].last_health_check = TRUE]
    ELSE trk

(***************************************************************************)
(* The process table.  A process is known by its pid; cmd is the set of    *)
(* services whose name or port number occurs in its command line, listens  *)
(* is the port it owns (0: none).                                          *)
(***************************************************************************)
Pids == 1 .. MaxPid
NoProc == [x \in {} |-> 0]
FreePids == Pids \ DOMAIN os
NewPid == CHOOSE p \in FreePids : \A q \in FreePids : p <= q

\* What the command line of a process launched for s may match.
CmdChoices(s) == {{}, {s}}

Spawn(table, pid, s, c) ==
    [x \in DOMAIN table \cup {pid} |->
        IF x = pid THEN [cmd |-> c, listens |-> PortOf(s)] ELSE table[x]]

\* Stop-Process on every owner of the port.
KillPort(table, port) ==
    [x \in {p \in DOMAIN table : table[p].listens # port} |-> table[x]]

\* cmd.contains(name) || (port.is_some() && cmd.contains(port))
Matching(table, s) == {p \in DOMAIN table : s \in table[p].cmd}

(***************************************************************************)
(* get_service_status, lines 223-274: the pids it may report (0: none; a   *)
(* scan stops at the first match in the table's iteration order) and the   *)
(* ServiceStatus it builds.                                                *)
(***************************************************************************)
\* A resolution that scans the command lines for the name whether or not the
\* service has a port.
FoundPids_ScansAlways(s, snap, trk) ==
    IF s \in DOMAIN trk
    THEN IF trk[s].pid \in DOMAIN snap THEN {trk[s].pid} ELSE {0}
    ELSE IF Matching(snap, s) # {}
         THEN Matching(snap, s)
         ELSE {0}

FoundPids(s, snap, trk) ==
    IF s \in DOMAIN trk
    THEN IF trk[s].pid \in DOMAIN snap THEN {trk[s].pid} ELSE {0}
    ELSE IF PortOf(s) # 0 /\ Matching(snap, s) # {}
         THEN Matching(snap, s)
         ELSE {0}

\* A ServiceStatus that takes health and restart count for what a record
\* starts with.
StatusOf_Defaults(s, found_pid, trk) ==
    [name |-> s,
     status |-> IF found_pid # 0 THEN "running" ELSE "stopped",
     pid |-> found_pid,
     port |-> PortOf(s),
     uptime |-> s \in DOMAIN trk,
     health |-> "unknown",
     auto_restart_enabled |-> services[s].auto_restart,
     restart_count |-> 0]

StatusOf(s, found_pid, trk) ==
    [name |-> s,
     status |-> IF found_pid # 0 THEN "running" ELSE "stopped",
     pid |-> found_pid,
     port |-> PortOf(s),
     uptime |-> s \in DOMAIN trk,
     health |-> IF s \in DOMAIN trk THEN trk[s].health_status ELSE "unknown",
     auto_restart_enabled |-> services[s].auto_restart,
     restart_count |-> IF s \in DOMAIN trk THEN trk[s].restart_count ELSE 0]

(***************************************************************************)
(* check_service_health, lines 286-324: the probe made and its verdict.    *)
(***************************************************************************)
ProbeKind(s) == IF UrlOf(s) # "" THEN "http" ELSE IF PortOf(s) # 0 THEN "tcp" ELSE "none"

ProbeOutcomes(kind) ==
    IF kind = "http" THEN {"2xx", "other_status", "transport_error"}
    ELSE {"connected", "refused"}

\* A verdict that takes any HTTP response, whatever its status, for healthy.
Verdict_AnyResponse(kind, outcome) ==
    IF outcome \in {"2xx", "other_status", "connected"} THEN "healthy" ELSE "unhealthy"

Verdict(kind, outcome) ==
    IF kind = "http"
    THEN IF outcome = "2xx" THEN "healthy" ELSE "unhealthy"
    ELSE IF outcome = "connected" THEN "healthy" ELSE "unhealthy"

(***************************************************************************)
(* Calls and returns.  A caller waits at a "_ret" pc under its callee's    *)
(* frame; Deliver hands a returned value to the caller and runs the        *)
(* caller up to its next lock acquisition or blocking call.                *)
(***************************************************************************)
Step(stk, lg) == [stk |-> stk, ret |-> NoVal, log |-> lg]

\* A dependency loop that detects cycles: a dependency whose start is already
\* under way further down the stack is passed over.
RECURSIVE NextDep_CycleChecked(_, _, _)
NextDep_CycleChecked(rest, f, lg) ==
    IF f.i > Len(DepsOf(f.name))
    THEN Step(Push(rest, [f EXCEPT !.pc = "st_launch"]), lg)
    ELSE IF \E k \in 1 .. Len(rest) :
                rest[k].fn = "start_service" /\ rest[k].name = DepsOf(f.name)[f.i]
    THEN NextDep_CycleChecked(rest, [f EXCEPT !.i = @ + 1], lg)
    ELSE Step(Push(Push(rest, [f EXCEPT !.pc = "st_dep_ret"]),
                   Frame("get_service_status", "gs_lock", DepsOf(f.name)[f.i])), lg)

\* start_service, lines 358-367: the dependency loop from index f.i on.
NextDep(rest, f, lg) ==
    IF f.i > Len(DepsOf(f.name))
    THEN Step(Push(rest, [f EXCEPT !.pc = "st_launch"]), lg)
    ELSE Step(Push(Push(rest, [f EXCEPT !.pc = "st_dep_ret"]),
                   Frame("get_service_status", "gs_lock", DepsOf(f.name)[f.i])), lg)

\* restart_service called: its frame waits for stop_service.
RestartFrames(s) ==
    <<Frame("restart_service", "rs_stop_ret", s), Frame("stop_service", "sp_lock", s)>>

\* A dependency loop that notes the stopped dependency and goes on without
\* starting it.
StartDependency_Skipped(rest, f, d, lg) ==
    NextDep(rest, [f EXCEPT !.i = @ + 1], Append(lg, Ev("dep_down", d, f.name)))

\* start_service, lines 360-363: dependency d of f.name is not running, so
\* start_service is called on it.
StartDependency(rest, f, d, lg) ==
    Step(Push(Push(rest, [f EXCEPT !.pc = "st_depstart_ret"]),
              Frame("start_service", "st_lock", d)),
         Append(lg, Ev("dep_down", d, f.name)))

\* A monitor that restarts every service of its snapshot, running or not.
MonitorCheck_Always(rest, f, val, lg) ==
    Step(Push(rest, [f EXCEPT !.pc = "mon_restart_ret"]) \o RestartFrames(f.name),
         Append(lg, Ev("auto_restart", f.name, "")))

\* monitor_auto_restart, lines 712-723: restart the service unless its status
\* is "running"; a status that failed to resolve is skipped.
MonitorCheck(rest, f, val, lg) ==
    IF val.k = "Ok" /\ val.v.status # "running"
    THEN Step(Push(rest, [f EXCEPT !.pc = "mon_restart_ret"]) \o RestartFrames(f.name),
              Append(lg, Ev("auto_restart", f.name, "")))
    ELSE Step(Push(rest, [f EXCEPT !.pc = "mon_next"]), lg)

\* The results of a batch: how many lines say what.  A line is the service's
\* name with "started"/"stopped" (Ok) or "failed" (Err); the order of the
\* lines in the Vec is the order of the calls and is not kept.
AddLine(res, line) ==
    [l \in DOMAIN res \cup {line} |->
        IF l \in DOMAIN res
        THEN (IF l = line THEN res[l] + 1 ELSE res[l])
        ELSE 1]

\* A batch that gives up at the first member that fails.
BatchResult_FailFast(rest, f, val, pc) ==
    IF val.k = "Err"
    THEN [stk |-> rest, ret |-> val, log |-> <<>>]
    ELSE Step(Push(rest, [f EXCEPT !.pc = pc, !.res = AddLine(@, <<f.name, val.k>>)]),
              <<>>)

\* start_all_services, lines 472-475, stop_all_services, lines 491-494: the
\* member's result becomes a line, whether Ok or Err, and the loop goes on.
BatchResult(rest, f, val, pc) ==
    Step(Push(rest, [f EXCEPT !.pc = pc, !.res = AddLine(@, <<f.name, val.k>>)]), <<>>)

\* A restart that goes on only when the stop terminated something.
RestartGoesOn_IfStopped(val) == val = Ok(TRUE)

\* restart_service, line 437: stop_service(..)? returns early on Err alone.
RestartGoesOn(val) == val.k # "Err"

RECURSIVE Deliver(_, _, _)
Deliver(stk, val, lg) ==
    IF stk = <<>> THEN [stk |-> stk, ret |-> val, log |-> lg]
    ELSE LET f == Top(stk)
             rest == Pop(stk)
         IN CASE f.pc = "st_dep_ret" ->          \* line 359-360
                   IF val.k = "Err" THEN Deliver(rest, val, lg)
                   ELSE IF val.v.status # "running"
                   THEN StartDependency(rest, f, val.v.name, lg)
                   ELSE NextDep(rest, [f EXCEPT !.i = @ + 1],
                                Append(lg, Ev("dep_up", val.v.name, f.name)))
              [] f.pc = "st_depstart_ret" ->     \* line 363
                   IF val.k = "Err" THEN Deliver(rest, val, lg)
                   ELSE Step(Push(rest, [f EXCEPT !.pc = "st_settle"]), lg)
              [] f.pc = "rs_stop_ret" ->         \* line 437
                   IF RestartGoesOn(val) THEN Step(Push(rest, [f EXCEPT !.pc = "rs_sleep"]), lg)
                   ELSE Deliver(rest, val, lg)
              [] f.pc = "rs_start_ret" ->        \* line 446
                   Deliver(rest, val, lg)
              [] f.pc = "sa_ret" ->              \* lines 472-475
                   BatchResult(rest, f, val, "sa_sleep")
              [] f.pc = "so_ret" ->              \* lines 491-494
                   BatchResult(rest, f, val, "so_next")
              [] f.pc = "ga_ret" ->              \* lines 333-336
                   Step(Push(rest, [f EXCEPT !.pc = "ga_next",
                                             !.res = IF val.k = "Ok" THEN Append(@, val.v)
                                                     ELSE @]), lg)
              [] f.pc = "mon_status_ret" ->      \* lines 712-723
                   MonitorCheck(rest, f, val, lg)
              [] f.pc = "mon_restart_ret" ->     \* line 722: let _ =
                   Step(Push(rest, [f EXCEPT !.pc = "mon_next"]), lg)

\* Thread t's running function returns val, having logged lg.
Return(t, val, lg) ==
    LET d == Deliver(Pop(stack[t]), val, lg)
    IN /\ Len(d.stk) <= MaxDepth
       /\ stack' = [stack EXCEPT ![t] = d.stk]
       /\ ret' = [ret EXCEPT ![t] = d.ret]
       /\ log' = [log EXCEPT ![t] = d.log]

\* Thread t's running function goes on as frame f, having logged lg.
Goto(t, f, lg) ==
    /\ stack' = [stack EXCEPT ![t] = SetTop(@, f)]
    /\ log' = [log EXCEPT ![t] = lg]
    /\ UNCHANGED ret

At(t, pc) == stack[t] # <<>> /\ Top(stack[t]).pc = pc
Cur(t) == Top(stack[t])

\* services.lock().unwrap() succeeds at once.
CanLockServices == services_lock = Free /\ ~poisoned
CanLockTracker == tracker_lock = Free

(***************************************************************************)
(* The command surface: the frames a command starts with.                  *)
(***************************************************************************)
NamedOps == {"get_service_status", "check_service_health", "start_service",
             "stop_service", "restart_service", "toggle_auto_restart"}
BatchOps == {"get_all_services_status"}

EntryPc(op) ==
    CASE op = "get_service_status" -> "gs_lock"
      [] op = "check_service_health" -> "ch_lock"
      [] op = "start_service" -> "st_lock"
      [] op = "stop_service" -> "sp_lock"
      [] op = "toggle_auto_restart" -> "tg_lock"
      [] op = "start_all_services" -> "sa_lock"
      [] op = "stop_all_services" -> "so_lock"
      [] op = "get_all_services_status" -> "ga_lock"

EntryFrames(op, name, enabled) ==
    IF op = "restart_service" THEN RestartFrames(name)
    ELSE <<[Frame(op, EntryPc(op), name) EXCEPT !.aux = IF enabled THEN 1 ELSE 0]>>

\* The names a command may be invoked with: a service with a dependency, a
\* service with a port and a URL, the service with neither, and a name that
\* is not registered.  booking-platform and content-builder are configured as
\* backend is, up to the strings.
Targets == {"web-app", "backend", "trading-bot", Ghost}

\* Every command the model invokes, with its arguments.
Commands ==
    [op : NamedOps, name : Targets, enabled : {FALSE}]
    \cup [op : {"toggle_auto_restart"}, name : Targets, enabled : {TRUE}]
    \cup [op : BatchOps, name : {""}, enabled : {FALSE}]

\* The two batch commands that start and stop.
BatchCommands ==
    [op : {"start_all_services", "stop_all_services"}, name : {""}, enabled : {FALSE}]

\* The commands two operators' windows send for one service at the same time.
PairCommands == {c \in Commands : c.op \in NamedOps /\ c.name = "backend"}

\* The dashboard's commands: the status refresh and the auto-restart switch.
DashCommands ==
    {c \in Commands : \/ c.op = "get_all_services_status"
                      \/ c.op = "toggle_auto_restart" /\ c.enabled /\ c.name = "web-app"}

\* Every command but toggle_auto_restart(_, true): the switch is only ever
\* set to off.
QuietCommands ==
    {c \in Commands : c.op # "toggle_auto_restart"}
    \cup [op : {"toggle_auto_restart"}, name : Targets, enabled : {FALSE}]

\* The frontend invokes one of cmds on thread t.
Invoke(t, cmds, limit) ==
    /\ t \in CmdThreads
    /\ stack[t] = <<>>
    /\ ops < limit
    /\ \E c \in cmds :
          /\ cmd' = [cmd EXCEPT ![t] = c]
          /\ stack' = [stack EXCEPT ![t] = EntryFrames(c.op, c.name, c.enabled)]
    /\ ret' = [ret EXCEPT ![t] = NoVal]
    /\ log' = [log EXCEPT ![t] = <<>>]
    /\ ops' = ops + 1
    /\ UNCHANGED <<services, processes, services_lock, tracker_lock, poisoned, os>>

(***************************************************************************)
(* get_service_status, lines 211-275.                                      *)
(***************************************************************************)
\* lines 213-218: lock the registry, look the name up, snapshot the table.
StatusLock(t) ==
    /\ At(t, "gs_lock")
    /\ CanLockServices
    /\ IF Registered(Cur(t).name)
       THEN /\ services_lock' = t
            /\ Goto(t, [Cur(t) EXCEPT !.pc = "gs_read", !.aux = os], log[t])
       ELSE /\ Return(t, NotFound, log[t])
            /\ UNCHANGED services_lock
    /\ UNCHANGED <<services, processes, tracker_lock, poisoned, os, cmd, ops>>

\* A resolution that drops a record whose pid is not in the snapshot.
StatusRead_Prunes(t) ==
    /\ At(t, "gs_read")
    /\ CanLockTracker
    /\ \E found_pid \in FoundPids(Cur(t).name, Cur(t).aux, processes) :
          /\ Return(t, Ok(StatusOf(Cur(t).name, found_pid, processes)), log[t])
          /\ processes' = IF found_pid = 0 THEN remove_process(processes, Cur(t).name)
                          ELSE processes
    /\ tracker_lock' = Free
    /\ services_lock' = Free
    /\ UNCHANGED <<services, poisoned, os, cmd, ops>>

\* lines 220-274: lock the tracker (the registry lock still held), resolve,
\* build the ServiceStatus, drop both guards.
StatusRead(t) ==
    /\ At(t, "gs_read")
    /\ CanLockTracker
    /\ \E found_pid \in FoundPids(Cur(t).name, Cur(t).aux, processes) :
          Return(t, Ok(StatusOf(Cur(t).name, found_pid, processes)), log[t])
    /\ tracker_lock' = Free
    /\ services_lock' = Free
    /\ UNCHANGED <<services, processes, poisoned, os, cmd, ops>>

(***************************************************************************)
(* check_service_health, lines 277-325.                                    *)
(***************************************************************************)
\* lines 279-284, and line 322 when there is nothing to probe.
HealthLock(t) ==
    /\ At(t, "ch_lock")
    /\ CanLockServices
    /\ LET s == Cur(t).name
       IN IF ~Registered(s) THEN Return(t, NotFound, log[t])
          ELSE IF ProbeKind(s) = "none" THEN Return(t, Ok("unknown"), log[t])
          ELSE Goto(t, [Cur(t) EXCEPT !.pc = "ch_probe"], log[t])
    /\ UNCHANGED <<services, processes, services_lock, tracker_lock, poisoned, os,
                   cmd, ops>>

\* line 288 (reqwest::get) or line 309 (TcpStream::connect).
HealthProbe(t) ==
    /\ At(t, "ch_probe")
    /\ LET kind == ProbeKind(Cur(t).name)
       IN \E outcome \in ProbeOutcomes(kind) :
             Goto(t, [Cur(t) EXCEPT !.pc = "ch_update", !.aux = Verdict(kind, outcome)],
                  Append(log[t], Ev(kind, Cur(t).name, outcome)))
    /\ UNCHANGED <<services, processes, services_lock, tracker_lock, poisoned, os,
                   cmd, ops>>

\* lines 291-293 and their like: lock the tracker, update_health, return the
\* verdict, drop the guard.
HealthUpdate(t) ==
    /\ At(t, "ch_update")
    /\ CanLockTracker
    /\ processes' = update_health(processes, Cur(t).name, Cur(t).aux)
    /\ tracker_lock' = Free
    /\ Return(t, Ok(Cur(t).aux), log[t])
    /\ UNCHANGED <<services, services_lock, poisoned, os, cmd, ops>>

(***************************************************************************)
(* start_service, lines 342-403.                                           *)
(***************************************************************************)
\* A start_service that puts a placeholder record into the tracker before it
\* looks the name up.
StartLock_TracksFirst(t) ==
    /\ At(t, "st_lock")
    /\ CanLockServices
    /\ processes' = track_process(processes, Cur(t).name, 0)
    /\ IF Registered(Cur(t).name)
       THEN LET d == NextDep(Pop(stack[t]), [Cur(t) EXCEPT !.i = 1], log[t])
            IN /\ stack' = [stack EXCEPT ![t] = d.stk]
               /\ UNCHANGED <<ret, log>>
       ELSE Return(t, NotFound, log[t])
    /\ UNCHANGED <<services, services_lock, tracker_lock, poisoned, os, cmd, ops>>

\* lines 344-355, then the dependency loop up to its first call.
StartLock(t) ==
    /\ At(t, "st_lock")
    /\ CanLockServices
    /\ IF Registered(Cur(t).name)
       THEN LET d == NextDep(Pop(stack[t]), [Cur(t) EXCEPT !.i = 1], log[t])
            IN /\ stack' = [stack EXCEPT ![t] = d.stk]
               /\ UNCHANGED <<ret, log>>
       ELSE Return(t, NotFound, log[t])
    /\ UNCHANGED <<services, processes, services_lock, tracker_lock, poisoned, os,
                   cmd, ops>>

\* line 365: the settle delay after a dependency was started.
StartSettle(t) ==
    /\ At(t, "st_settle")
    /\ LET d == NextDep(Pop(stack[t]), [Cur(t) EXCEPT !.i = @ + 1], log[t])
       IN /\ stack' = [stack EXCEPT ![t] = d.stk]
          /\ UNCHANGED <<ret, log>>
    /\ UNCHANGED <<services, processes, services_lock, tracker_lock, poisoned, os,
                   cmd, ops>>

\* lines 376-381, 401: powershell Start-Process.
StartLaunch(t) ==
    /\ At(t, "st_launch")
    /\ LET s == Cur(t).name
       IN \/ /\ FreePids # {}
             /\ \E c \in CmdChoices(s) : os' = Spawn(os, NewPid, s, c)
             /\ Goto(t, [Cur(t) EXCEPT !.pc = "st_sleep"],
                     Append(log[t], Ev("launch", s, "ok")))
          \/ /\ Return(t, Ok(FALSE), Append(log[t], Ev("launch", s, "fail")))
             /\ UNCHANGED os
          \/ /\ Return(t, Err("Failed to start service"),
                       Append(log[t], Ev("launch", s, "err")))
             /\ UNCHANGED os
    /\ UNCHANGED <<services, processes, services_lock, tracker_lock, poisoned,
                   cmd, ops>>

\* A start_service that answers whether it found a process to track.
StartScan_Correlated(t) ==
    /\ At(t, "st_sleep")
    /\ LET m == Matching(os, Cur(t).name)
       IN IF m = {} THEN Return(t, Ok(FALSE), log[t])
          ELSE \E p \in m : Goto(t, [Cur(t) EXCEPT !.pc = "st_track", !.aux = p], log[t])
    /\ UNCHANGED <<services, processes, services_lock, tracker_lock, poisoned, os,
                   cmd, ops>>

\* lines 383-392, 399: sleep, refresh the table, look for a matching process.
StartScan(t) ==
    /\ At(t, "st_sleep")
    /\ LET m == Matching(os, Cur(t).name)
       IN IF m = {} THEN Return(t, Ok(TRUE), log[t])
          ELSE \E p \in m : Goto(t, [Cur(t) EXCEPT !.pc = "st_track", !.aux = p], log[t])
    /\ UNCHANGED <<services, processes, services_lock, tracker_lock, poisoned, os,
                   cmd, ops>>

\* A start_service that keeps the tracker guard after track_process and goes
\* on to resolve the service's status, which locks the registry.
StartTrack_ThenResolves(t) ==
    /\ At(t, "st_track")
    /\ CanLockTracker
    /\ processes' = track_process(processes, Cur(t).name, Cur(t).aux)
    /\ tracker_lock' = t
    /\ Goto(t, [Cur(t) EXCEPT !.pc = "gs_lock"], Append(log[t], Ev("track", Cur(t).name, "")))
    /\ UNCHANGED <<services, services_lock, poisoned, os, cmd, ops>>

\* lines 393-399: lock the tracker, track_process, break, Ok(true).
StartTrack(t) ==
    /\ At(t, "st_track")
    /\ CanLockTracker
    /\ processes' = track_process(processes, Cur(t).name, Cur(t).aux)
    /\ tracker_lock' = Free
    /\ Return(t, Ok(TRUE), Append(log[t], Ev("track", Cur(t).name, "")))
    /\ UNCHANGED <<services, services_lock, poisoned, os, cmd, ops>>

(***************************************************************************)
(* stop_service, lines 405-433.                                            *)
(***************************************************************************)
\* lines 407-409: the guard lives to the end of the function.
StopLock(t) ==
    /\ At(t, "sp_lock")
    /\ CanLockServices
    /\ IF Registered(Cur(t).name)
       THEN /\ services_lock' = t
            /\ Goto(t, [Cur(t) EXCEPT !.pc = "sp_untrack"], log[t])
       ELSE /\ Return(t, NotFound, log[t])
            /\ UNCHANGED services_lock
    /\ UNCHANGED <<services, processes, tracker_lock, poisoned, os, cmd, ops>>

\* A stop_service that runs the termination command whether or not a port is
\* configured.
StopUntrack_KillAnyway(t) ==
    /\ At(t, "sp_untrack")
    /\ CanLockTracker
    /\ processes' = remove_process(processes, Cur(t).name)
    /\ tracker_lock' = Free
    /\ Goto(t, [Cur(t) EXCEPT !.pc = "sp_kill"],
            Append(log[t], Ev("untrack", Cur(t).name, "")))
    /\ UNCHANGED <<services, services_lock, poisoned, os, cmd, ops>>

\* lines 412-418, 432: lock the tracker (the registry lock still held),
\* remove_process, drop the tracker guard; without a port, Ok(false).
StopUntrack(t) ==
    /\ At(t, "sp_untrack")
    /\ CanLockTracker
    /\ processes' = remove_process(processes, Cur(t).name)
    /\ tracker_lock' = Free
    /\ LET lg == Append(log[t], Ev("untrack", Cur(t).name, ""))
       IN IF PortOf(Cur(t).name) # 0
          THEN /\ Goto(t, [Cur(t) EXCEPT !.pc = "sp_kill"], lg)
               /\ UNCHANGED services_lock
          ELSE /\ Return(t, Ok(FALSE), lg)
               /\ services_lock' = Free
    /\ UNCHANGED <<services, poisoned, os, cmd, ops>>

\* lines 419-429: powershell Stop-Process on the owners of the port.
StopKill(t) ==
    /\ At(t, "sp_kill")
    /\ LET s == Cur(t).name
       IN \/ /\ os' = KillPort(os, PortOf(s))
             /\ Return(t, Ok(TRUE), Append(log[t], Ev("kill", s, "ok")))
          \/ /\ Return(t, Ok(FALSE), Append(log[t], Ev("kill", s, "fail")))
             /\ UNCHANGED os
          \/ /\ Return(t, Err("Failed to stop service"),
                       Append(log[t], Ev("kill", s, "err")))
             /\ UNCHANGED os
    /\ services_lock' = Free
    /\ UNCHANGED <<services, processes, tracker_lock, poisoned, cmd, ops>>

(***************************************************************************)
(* restart_service, lines 435-447.                                         *)
(***************************************************************************)
\* lines 438-446: the delay is over; lock the tracker,
\* increment_restart_count, drop the guard, call start_service.
RestartIncrement(t) ==
    /\ At(t, "rs_sleep")
    /\ CanLockTracker
    /\ processes' = increment_restart_count(processes, Cur(t).name)
    /\ tracker_lock' = Free
    /\ stack' = [stack EXCEPT ![t] =
                    Push(SetTop(@, [Cur(t) EXCEPT !.pc = "rs_start_ret"]),
                         Frame("start_service", "st_lock", Cur(t).name))]
    /\ log' = [log EXCEPT ![t] = Append(@, Ev("inc", Cur(t).name, ""))]
    /\ UNCHANGED <<services, services_lock, poisoned, os, ret, cmd, ops>>

(***************************************************************************)
(* toggle_auto_restart, lines 500-508.                                     *)
(***************************************************************************)
\* A write of the flag that reaches every service of the registry.
SetAutoRestart_All(reg, s, enabled) ==
    [x \in DOMAIN reg |-> [reg[x] EXCEPT !.auto_restart = enabled]]

\* line 506: service.auto_restart = enabled.
SetAutoRestart(reg, s, enabled) == [reg EXCEPT ![s].auto_restart = enabled]

\* A toggle_auto_restart that answers Ok for a name it does not know.
ToggleAutoRestart_Silent(t) ==
    /\ At(t, "tg_lock")
    /\ CanLockServices
    /\ services' = IF Registered(Cur(t).name)
                   THEN [services EXCEPT ![Cur(t).name].auto_restart = (Cur(t).aux = 1)]
                   ELSE services
    /\ Return(t, Ok(TRUE), log[t])
    /\ UNCHANGED <<processes, services_lock, tracker_lock, poisoned, os, cmd, ops>>

ToggleAutoRestart(t) ==
    /\ At(t, "tg_lock")
    /\ CanLockServices
    /\ IF Registered(Cur(t).name)
       THEN /\ services' = SetAutoRestart(services, Cur(t).name, Cur(t).aux = 1)
            /\ Return(t, Ok(TRUE), log[t])
       ELSE /\ Return(t, NotFound, log[t])
            /\ UNCHANGED services
    /\ UNCHANGED <<processes, services_lock, tracker_lock, poisoned, os, cmd, ops>>

(***************************************************************************)
(* Loops over the registry's keys.  A HashMap iterates in an arbitrary     *)
(* order, so the next key is any key not visited yet (f.todo).             *)
(***************************************************************************)
\* Frame f calls function fn on one of choices and waits at retpc.
CallNext(t, f, choices, retpc, fn) ==
    \E s \in choices :
        stack' = [stack EXCEPT ![t] =
                     Push(SetTop(@, [f EXCEPT !.pc = retpc, !.name = s, !.todo = @ \ {s}]),
                          Frame(fn, EntryPc(fn), s))]

\* A batch that takes the names in the HashMap's order, unsorted.
FewestDeps_Any(todo) == todo

\* start_all_services, lines 461-467: sort_by_key on the dependency count.
FewestDeps(todo) ==
    {s \in todo : \A u \in todo : Len(DepsOf(s)) <= Len(DepsOf(u))}

(***************************************************************************)
(* start_all_services, lines 449-480.                                      *)
(***************************************************************************)
\* lines 451-472: collect the names, sort, start the first.
StartAllLock(t) ==
    /\ At(t, "sa_lock")
    /\ CanLockServices
    /\ LET f == [Cur(t) EXCEPT !.todo = DOMAIN services]
       IN CallNext(t, f, FewestDeps(f.todo), "sa_ret", "start_service")
    /\ UNCHANGED <<services, processes, services_lock, tracker_lock, poisoned, os,
                   ret, cmd, log, ops>>

\* lines 476-479: the delay after a start, then the next service or the result.
StartAllSleep(t) ==
    /\ At(t, "sa_sleep")
    /\ IF Cur(t).todo = {}
       THEN Return(t, Ok(Cur(t).res), log[t])
       ELSE /\ CallNext(t, Cur(t), FewestDeps(Cur(t).todo), "sa_ret", "start_service")
            /\ UNCHANGED <<ret, log>>
    /\ UNCHANGED <<services, processes, services_lock, tracker_lock, poisoned, os,
                   cmd, ops>>

(***************************************************************************)
(* stop_all_services, lines 482-498.                                       *)
(***************************************************************************)
\* lines 484-491: collect the names, drop the guard, stop the first.
StopAllLock(t) ==
    /\ At(t, "so_lock")
    /\ CanLockServices
    /\ LET f == [Cur(t) EXCEPT !.todo = DOMAIN services]
       IN CallNext(t, f, f.todo, "so_ret", "stop_service")
    /\ UNCHANGED <<services, processes, services_lock, tracker_lock, poisoned, os,
                   ret, cmd, log, ops>>

(***************************************************************************)
(* get_all_services_status, lines 327-340.                                 *)
(***************************************************************************)
\* lines 329-333: the guard is held while get_service_status is called.
GetAllLock(t) ==
    /\ At(t, "ga_lock")
    /\ CanLockServices
    /\ services_lock' = t
    /\ LET f == [Cur(t) EXCEPT !.todo = DOMAIN services]
       IN CallNext(t, f, f.todo, "ga_ret", "get_service_status")
    /\ UNCHANGED <<services, processes, tracker_lock, poisoned, os,
                   ret, cmd, log, ops>>

(***************************************************************************)
(* monitor_auto_restart, lines 697-729.                                    *)
(***************************************************************************)
\* A monitor whose interval also passes while the restart it invoked is in
\* flight: a second round starts on top of the first.
MonitorTick_Overlapping(t, limit) ==
    /\ stack[t] # <<>>
    /\ stack[t][1].pc \in {"mon_sleep", "mon_restart_ret"}
    /\ ops < limit
    /\ ops' = ops + 1
    /\ stack' = [stack EXCEPT ![t] =
                    IF Len(@) = 1 THEN SetTop(@, [Cur(t) EXCEPT !.pc = "mon_lock", !.name = ""])
                    ELSE Push(@, Frame("monitor_auto_restart", "mon_lock", ""))]
    /\ log' = [log EXCEPT ![t] = <<>>]
    /\ UNCHANGED <<services, processes, services_lock, tracker_lock, poisoned, os,
                   ret, cmd>>

\* lines 699-700: the loop comes round to its sleep only after the for loop
\* of lines 710-726, block_on of line 721 included, has ended; then the
\* interval passes.
MonitorTick(t, limit) ==
    /\ At(t, "mon_sleep")
    /\ ops < limit
    /\ ops' = ops + 1
    /\ Goto(t, [Cur(t) EXCEPT !.pc = "mon_lock", !.name = ""], <<>>)
    /\ UNCHANGED <<services, processes, services_lock, tracker_lock, poisoned, os,
                   cmd>>

\* A monitor whose snapshot takes every service, enabled or not.
MonitorLock_AllServices(t) ==
    /\ At(t, "mon_lock")
    /\ CanLockServices
    /\ LET f == [Cur(t) EXCEPT !.todo = DOMAIN services]
       IN CallNext(t, f, f.todo, "mon_status_ret", "get_service_status")
    /\ UNCHANGED <<services, processes, services_lock, tracker_lock, poisoned, os,
                   ret, cmd, log, ops>>

\* lines 703-712: snapshot the enabled services, drop the guard, check the first.
MonitorLock(t) ==
    /\ At(t, "mon_lock")
    /\ CanLockServices
    /\ LET f == [Cur(t) EXCEPT !.todo = {s \in DOMAIN services : services[s].auto_restart}]
       IN IF f.todo = {}
          THEN stack' = [stack EXCEPT ![t] = SetTop(@, [f EXCEPT !.pc = "mon_sleep"])]
          ELSE CallNext(t, f, f.todo, "mon_status_ret", "get_service_status")
    /\ UNCHANGED <<services, processes, services_lock, tracker_lock, poisoned, os,
                   ret, cmd, log, ops>>

(***************************************************************************)
(* The next round of a loop: stop_all_services (line 490),                 *)
(* get_all_services_status (line 332), monitor_auto_restart (line 710).    *)
(***************************************************************************)
IterNext(t) ==
    /\ stack[t] # <<>>
    /\ Cur(t).pc \in {"so_next", "ga_next", "mon_next"}
    /\ LET f == Cur(t)
       IN IF f.todo = {}
          THEN /\ IF f.pc = "mon_next"
                  THEN Goto(t, [f EXCEPT !.pc = "mon_sleep"], log[t])
                  ELSE Return(t, Ok(f.res), log[t])
               /\ services_lock' = IF f.pc = "ga_next" THEN Free ELSE services_lock
          ELSE /\ CASE f.pc = "so_next" -> CallNext(t, f, f.todo, "so_ret", "stop_service")
                    [] f.pc = "ga_next" -> CallNext(t, f, f.todo, "ga_ret", "get_service_status")
                    [] f.pc = "mon_next" ->
                         CallNext(t, f, f.todo, "mon_status_ret", "get_service_status")
               /\ UNCHANGED <<ret, log, services_lock>>
    /\ UNCHANGED <<services, processes, tracker_lock, poisoned, os, cmd, ops>>

(***************************************************************************)
(* std::sync::Mutex: lock() on a mutex the thread already holds does not   *)
(* return: it deadlocks (no step) or panics; a panic with the guard held   *)
(* poisons the mutex, and lock().unwrap() on a poisoned mutex panics.      *)
(***************************************************************************)
ServicesLockPcs ==
    {"gs_lock", "ch_lock", "st_lock", "sp_lock", "tg_lock", "sa_lock", "so_lock",
     "ga_lock", "mon_lock"}

WantsServices(t) == stack[t] # <<>> /\ Cur(t).pc \in ServicesLockPcs

\* The places where process_tracker.lock() is called: lines 220, 393, 413,
\* 442 and the arms of check_service_health (291-311).
TrackerLockPcs == {"gs_read", "ch_update", "st_track", "sp_untrack", "rs_sleep"}

WantsTracker(t) == stack[t] # <<>> /\ Cur(t).pc \in TrackerLockPcs

\* The thread's command ends in a panic.
Abort(t) ==
    /\ stack' = [stack EXCEPT ![t] = <<>>]
    /\ ret' = [ret EXCEPT ![t] = Panic]
    /\ UNCHANGED log

RelockPanic(t) ==
    /\ WantsServices(t)
    /\ services_lock = t
    /\ Abort(t)
    /\ services_lock' = Free
    /\ poisoned' = TRUE
    /\ UNCHANGED <<services, processes, tracker_lock, os, cmd, ops>>

PoisonPanic(t) ==
    /\ WantsServices(t)
    /\ services_lock = Free
    /\ poisoned
    /\ Abort(t)
    /\ UNCHANGED <<services, processes, services_lock, tracker_lock, poisoned, os,
                   cmd, ops>>

(***************************************************************************)
(* The environment: a process exits.  An exit shows only when the table is *)
(* read (a snapshot, a scan, the choice of a new pid), so it is taken when *)
(* some thread is about to read the table.                                 *)
(***************************************************************************)
ReadsTable(t) == stack[t] # <<>> /\ Cur(t).pc \in {"gs_lock", "st_launch", "st_sleep"}

ProcExit(p) ==
    /\ p \in DOMAIN os
    /\ \E t \in Threads : ReadsTable(t)
    /\ os' = [x \in DOMAIN os \ {p} |-> os[x]]
    /\ UNCHANGED <<services, processes, services_lock, tracker_lock, poisoned,
                   stack, ret, cmd, log, ops>>

(***************************************************************************)
(* The system.                                                             *)
(***************************************************************************)
NoCmd == [op |-> "", name |-> "", enabled |-> FALSE]

InitThreads ==
    /\ stack = [t \in Threads |->
                  IF t = MonThread
                  THEN <<Frame("monitor_auto_restart", "mon_sleep", "")>>
                  ELSE <<>>]
    /\ ret = [t \in Threads |-> NoVal]
    /\ cmd = [t \in Threads |-> NoCmd]
    /\ log = [t \in Threads |-> <<>>]
    /\ ops = 0

InitState ==
    /\ processes = NoProc
    /\ services_lock = Free
    /\ tracker_lock = Free
    /\ poisoned = FALSE
    /\ os = NoProc
    /\ InitThreads

\* AppState::new.
Init == services = Registry /\ InitState

\* The same program over either registry.
InitAny == services \in {Registry, RegistryChain} /\ InitState

\* get_service_status, start_service, stop_service, restart_service and
\* toggle_auto_restart at work.
StatusStep(t) == StatusLock(t) \/ StatusRead(t)

\* start_service but for the delay after a dependency's start.
StartOwnStep(t) == StartLock(t) \/ StartLaunch(t) \/ StartScan(t) \/ StartTrack(t)

StartStep(t) == StartOwnStep(t) \/ StartSettle(t)

StopStep(t) == StopLock(t) \/ StopUntrack(t) \/ StopKill(t)

RunStep(t) ==
    \/ StatusStep(t)
    \/ StartStep(t)
    \/ StopStep(t)
    \/ RestartIncrement(t)
    \/ ToggleAutoRestart(t)

HealthStep(t) == HealthLock(t) \/ HealthProbe(t) \/ HealthUpdate(t)

PanicStep(t) == RelockPanic(t) \/ PoisonPanic(t)

\* The whole system: the commands of one operator, one after the other, beside
\* the monitor thread.
Next ==
    \/ Invoke("cmd1", Commands, MaxOps)
    \/ MonitorTick(MonThread, MaxOps)
    \/ \E t \in {"cmd1", MonThread} :
          \/ RunStep(t) \/ HealthStep(t) \/ GetAllLock(t)
          \/ MonitorLock(t) \/ IterNext(t) \/ PanicStep(t)
    \/ \E p \in Pids : ProcExit(p)

Spec == Init /\ [][Next]_vars

\* The whole system when the operator never switches auto-restart on.  No
\* loop comes to a second round here: the monitor's snapshot is empty, and
\* get_all_services_status does not get past its first call.
NextQuiet ==
    \/ Invoke("cmd1", QuietCommands, MaxOps)
    \/ MonitorTick(MonThread, MaxOps)
    \/ \E t \in {"cmd1", MonThread} :
          \/ RunStep(t) \/ HealthStep(t) \/ GetAllLock(t)
          \/ MonitorLock(t) \/ PanicStep(t)
    \/ \E p \in Pids : ProcExit(p)

SpecQuiet == Init /\ [][NextQuiet]_vars

\* The commands on one service, one after the other, over either registry.
NextAny ==
    \/ Invoke("cmd1", {c \in Commands : c.op \in NamedOps}, MaxAnyOps)
    \/ RunStep("cmd1")
    \/ HealthStep("cmd1")
    \/ \E p \in Pids : ProcExit(p)

SpecAny == InitAny /\ [][NextAny]_vars

\* The dashboard beside the monitor: the operator switches auto-restart on and
\* refreshes the status of all services.
NextDash ==
    \/ Invoke("cmd1", DashCommands, MaxDashOps)
    \/ MonitorTick(MonThread, MaxDashOps)
    \/ \E t \in {"cmd1", MonThread} :
          RunStep(t) \/ GetAllLock(t) \/ MonitorLock(t) \/ IterNext(t) \/ PanicStep(t)
    \/ \E p \in Pids : ProcExit(p)

SpecDash == Init /\ [][NextDash]_vars

\* One batch command, invoked when nothing runs yet or when backend was
\* started and is tracked.
InitBatch ==
    /\ services = Registry
    /\ services_lock = Free
    /\ tracker_lock = Free
    /\ poisoned = FALSE
    /\ \/ os = NoProc /\ processes = NoProc
       \/ /\ os = Spawn(NoProc, 1, "backend", {"backend"})
          /\ processes = track_process(NoProc, "backend", 1)
    /\ \E c \in BatchCommands :
          /\ cmd = [t \in Threads |-> IF t = "cmd1" THEN c ELSE NoCmd]
          /\ stack = [t \in Threads |->
                        IF t = MonThread
                        THEN <<Frame("monitor_auto_restart", "mon_sleep", "")>>
                        ELSE IF t = "cmd1" THEN EntryFrames(c.op, c.name, c.enabled)
                        ELSE <<>>]
    /\ ret = [t \in Threads |-> NoVal]
    /\ log = [t \in Threads |-> <<>>]
    /\ ops = 1

NextBatch ==
    \/ StartAllLock("cmd1") \/ StartAllSleep("cmd1")
    \/ StopAllLock("cmd1") \/ IterNext("cmd1")
    \/ StatusStep("cmd1") \/ StartStep("cmd1") \/ StopStep("cmd1")
    \/ \E p \in Pids : ProcExit(p)

SpecBatch == InitBatch /\ [][NextBatch]_vars

\* Two commands on one service (backend, which has no dependency), running
\* on two threads at the same time.
NextPair ==
    \/ \E t \in CmdThreads :
          \/ Invoke(t, PairCommands, MaxPairOps)
          \/ StatusStep(t) \/ StartOwnStep(t) \/ StopStep(t)
          \/ RestartIncrement(t) \/ ToggleAutoRestart(t)
          \/ HealthStep(t)
    \/ \E p \in Pids : ProcExit(p)

SpecPair == Init /\ [][NextPair]_vars

\* The records the tracker may hold of a service: any pid, a count of
\* restarts, and the health a check left.
Records ==
    {[pid |-> p, restart_count |-> n, last_health_check |-> h # "unknown",
      health_status |-> h] :
        p \in Pids, n \in 0 .. MaxCount, h \in {"unknown", "healthy", "unhealthy"}}

\* The trackers with at most one record, of backend (which has a port) or of
\* trading-bot (which has none).
Trackers ==
    {NoProc} \cup {(s :> r) : s \in {"backend", "trading-bot"}, r \in Records}

\* The process tables: each pid is free or runs a process launched for
\* backend or trading-bot, with or without the name in its command line.
Tables ==
    LET procs == {[cmd |-> IF named THEN {s} ELSE {}, listens |-> Registry[s].port] :
                     s \in {"backend", "trading-bot"}, named \in BOOLEAN}
    IN UNION {[live -> procs] : live \in SUBSET Pids}

\* One get_service_status, invoked on any tracker and process table.
InitResolve ==
    /\ services = Registry
    /\ services_lock = Free
    /\ tracker_lock = Free
    /\ poisoned = FALSE
    /\ processes \in Trackers
    /\ os \in Tables
    /\ \E c \in {c \in Commands : c.op = "get_service_status"} :
          /\ cmd = [t \in Threads |-> IF t = "cmd1" THEN c ELSE NoCmd]
          /\ stack = [t \in Threads |->
                        IF t = MonThread
                        THEN <<Frame("monitor_auto_restart", "mon_sleep", "")>>
                        ELSE IF t = "cmd1" THEN EntryFrames(c.op, c.name, c.enabled)
                        ELSE <<>>]
    /\ ret = [t \in Threads |-> NoVal]
    /\ log = [t \in Threads |-> <<>>]
    /\ ops = 1

NextResolve ==
    \/ StatusLock("cmd1")
    \/ StatusRead("cmd1")
    \/ \E p \in Pids : ProcExit(p)

SpecResolve == InitResolve /\ [][NextResolve]_vars

\* start_service("backend") is in flight on one thread, invoked before
\* anything else, when the commands of a second window arrive.
InitRace ==
    /\ services = Registry
    /\ services_lock = Free
    /\ tracker_lock = Free
    /\ poisoned = FALSE
    /\ processes = NoProc
    /\ os = NoProc
    /\ LET c == [op |-> "start_service", name |-> "backend", enabled |-> FALSE]
       IN /\ cmd = [t \in Threads |-> IF t = "cmd1" THEN c ELSE NoCmd]
          /\ stack = [t \in Threads |->
                        IF t = MonThread
                        THEN <<Frame("monitor_auto_restart", "mon_sleep", "")>>
                        ELSE IF t = "cmd1" THEN EntryFrames(c.op, c.name, c.enabled)
                        ELSE <<>>]
    /\ ret = [t \in Threads |-> NoVal]
    /\ log = [t \in Threads |-> <<>>]
    /\ ops = 1

NextRace ==
    \/ Invoke("cmd2", PairCommands, MaxPairOps)
    \/ \E t \in CmdThreads :
          \/ StatusStep(t) \/ StartOwnStep(t) \/ StopStep(t)
          \/ RestartIncrement(t) \/ ToggleAutoRestart(t)
          \/ HealthStep(t)
    \/ \E p \in Pids : ProcExit(p)

SpecRace == InitRace /\ [][NextRace]_vars

\* One start_service, invoked over a registry with or without a dependency
\* cycle, when nothing runs yet or when backend was started by hand (it is
\* in the process table and not in the tracker).  The scheduler runs the
\* command's thread whenever it can take a step.
InitCycle ==
    /\ services \in {Registry, RegistryChain, RegistryCycle}
    /\ services_lock = Free
    /\ tracker_lock = Free
    /\ poisoned = FALSE
    /\ processes = NoProc
    /\ os \in {NoProc, Spawn(NoProc, 1, "backend", {"backend"})}
    /\ \E c \in {c \in Commands : c.op = "start_service"} :
          /\ cmd = [t \in Threads |-> IF t = "cmd1" THEN c ELSE NoCmd]
          /\ stack = [t \in Threads |->
                        IF t = MonThread
                        THEN <<Frame("monitor_auto_restart", "mon_sleep", "")>>
                        ELSE IF t = "cmd1" THEN EntryFrames(c.op, c.name, c.enabled)
                        ELSE <<>>]
    /\ ret = [t \in Threads |-> NoVal]
    /\ log = [t \in Threads |-> <<>>]
    /\ ops = 1

StartRuns(t) == StatusStep(t) \/ StartStep(t)

NextCycle ==
    \/ StartRuns("cmd1")
    \/ \E p \in Pids : ProcExit(p)

SpecCycle == InitCycle /\ [][NextCycle]_vars /\ WF_vars(StartRuns("cmd1"))

(***************************************************************************)
(* What a command has answered, and what its thread has done.              *)
(***************************************************************************)
Returned(t) == ret[t].k \in {"Ok", "Err"}

\* Thread t runs, or has run, command op on registered service s.
Runs(t, op, s) == cmd[t].op = op /\ cmd[t].name = s /\ Registered(s)

\* The positions in lg of the events e on service s.
Events(lg, e, s) == {i \in 1 .. Len(lg) : lg[i].e = e /\ lg[i].s = s}

\* Thread t's innermost call is function fn and this step takes it on.
Moves(t, fn) == stack[t] # <<>> /\ Cur(t).fn = fn /\ stack'[t] # stack[t]

\* The restart count get_service_status reports for s (lines 258-260).
ReportedCount(s) == IF s \in DOMAIN processes THEN processes[s].restart_count ELSE 0

(***************************************************************************)
(* C1: each of get_service_status, check_service_health, start_service,    *)
(* stop_service, restart_service and toggle_auto_restart, called with a    *)
(* name that is not in the registry, answers with the NotFound error and   *)
(* nothing else, and has done nothing to a process or to the tracker.      *)
(***************************************************************************)
C1_UnknownNameIsNotFound ==
    \A t \in CmdThreads :
        (cmd[t].op \in NamedOps /\ ~Registered(cmd[t].name) /\ Returned(t))
            => /\ ret[t] = [k |-> "Err", v |-> "not found"]
               /\ log[t] = <<>>

C1_Witness ==
    /\ cmd["cmd1"].op = "restart_service"
    /\ cmd["cmd1"].name = Ghost
    /\ ret["cmd1"] = NotFound

(***************************************************************************)
(* C2: in every start of a service, a declared dependency that was         *)
(* resolved as not running has its process launched before the service's   *)
(* own: between the moment start_service(x) finds dependency d down and    *)
(* any later launch for x lies a launch for d.  Every link of a chain of   *)
(* dependencies obeys it, so the order holds transitively.                 *)
(***************************************************************************)
C2_DependencyLaunchedFirst ==
    \A t \in Threads :
        \A i, k \in 1 .. Len(log[t]) :
            (/\ i < k
             /\ log[t][i].e = "dep_down"
             /\ log[t][k].e = "launch"
             /\ log[t][k].s = log[t][i].r)
                => \E j \in (i + 1) .. (k - 1) :
                       log[t][j].e = "launch" /\ log[t][j].s = log[t][i].s

\* web-app over backend over trading-bot, all three launched, deepest first.
C2_Witness ==
    /\ services = RegistryChain
    /\ Runs("cmd1", "start_service", "web-app")
    /\ ret["cmd1"] = Ok(TRUE)
    /\ \E i, j, k \in 1 .. Len(log["cmd1"]) :
          /\ i < j /\ j < k
          /\ log["cmd1"][i] = Ev("launch", "trading-bot", "ok")
          /\ log["cmd1"][j] = Ev("launch", "backend", "ok")
          /\ log["cmd1"][k] = Ev("launch", "web-app", "ok")

(***************************************************************************)
(* C3: every restart_service on a registered service raises its restart    *)
(* counter by one, so the count reported after k completed restarts is k.  *)
(* Stated for k = 1: when the first command of a run is a restart that     *)
(* succeeds, the reported restart count is 1.                              *)
(***************************************************************************)
C3_RestartCounted ==
    \A t \in CmdThreads :
        \A s \in DOMAIN services :
            (Runs(t, "restart_service", s) /\ ops = 1 /\ ret[t] = Ok(TRUE))
                => ReportedCount(s) = 1

(***************************************************************************)
(* C4: every get_all_services_status returns: it is never left waiting for *)
(* a lock that cannot be released, and it does not fail as a whole.        *)
(***************************************************************************)
C4_GetAllReturns ==
    \A t \in CmdThreads :
        cmd[t].op = "get_all_services_status"
            => /\ ret[t] # Panic
               /\ ~(WantsServices(t) /\ services_lock = t)

(***************************************************************************)
(* C5: once toggle_auto_restart(name, true) has completed for a registered *)
(* service that is not running, the next Monitor tick invokes restart for  *)
(* it.  For that the tick must get its snapshot of the registry: while a   *)
(* service has auto-restart enabled, the monitor thread is alive and the   *)
(* registry lock is not held by a thread that can never release it.        *)
(***************************************************************************)
C5_NextTickRestarts ==
    (\E s \in DOMAIN services : services[s].auto_restart)
        => /\ stack[MonThread] # <<>>
           /\ ~(/\ At(MonThread, "mon_lock")
                /\ \E t \in CmdThreads : WantsServices(t) /\ services_lock = t)

\* A tick that did get its snapshot restarts the enabled service it found
\* not running.
C5_Witness ==
    /\ services["web-app"].auto_restart
    /\ log[MonThread] # <<>>
    /\ log[MonThread][1] = Ev("auto_restart", "web-app", "")

(***************************************************************************)
(* C6: no operation holds the registry lock or the tracker lock while it   *)
(* performs a blocking call: a process launch, a termination command, a    *)
(* network probe or a timed sleep.                                         *)
(***************************************************************************)
BlockingPcs ==
    {"ch_probe", "st_settle", "st_launch", "st_sleep", "sp_kill", "rs_sleep",
     "sa_sleep", "mon_sleep"}

C6_NoLockAcrossBlockingCall ==
    \A t \in Threads :
        (stack[t] # <<>> /\ Cur(t).pc \in BlockingPcs)
            => services_lock # t /\ tracker_lock # t

(***************************************************************************)
(* C7: stop_service on a registered service with no configured port never  *)
(* issues a termination command, and what it answers is Ok(false), not an  *)
(* error.  No thread ever logs a termination for a portless service, in a  *)
(* stop of its own or inside a restart.                                    *)
(***************************************************************************)
C7_PortlessStopIsFalse ==
    /\ \A t \in Threads :
          \A i \in 1 .. Len(log[t]) : log[t][i].e = "kill" => PortOf(log[t][i].s) # 0
    /\ \A t \in CmdThreads :
          \A s \in DOMAIN services :
              (Runs(t, "stop_service", s) /\ PortOf(s) = 0 /\ Returned(t))
                  => ret[t] = Ok(FALSE)

C7_Witness ==
    /\ Runs("cmd1", "stop_service", "trading-bot")
    /\ ret["cmd1"] = Ok(FALSE)
    /\ log["cmd1"] = <<Ev("untrack", "trading-bot", "")>>

(***************************************************************************)
(* C8: a stop of a registered service removes its tracker record before    *)
(* termination is attempted, and the outcome of the termination command    *)
(* (true, false or an error) puts nothing back: the step that untracks     *)
(* leaves no record, and the step that terminates and returns leaves the   *)
(* tracker as it was.                                                      *)
(***************************************************************************)
C8_Step ==
    \A t \in Threads :
        Moves(t, "stop_service") =>
            /\ Cur(t).pc = "sp_untrack" =>
                  /\ Cur(t).name \notin DOMAIN processes'
                  /\ Events(log[t], "kill", Cur(t).name) = {}
            /\ Cur(t).pc = "sp_kill" =>
                  /\ processes' = processes
                  /\ Len(stack'[t]) < Len(stack[t])

C8_StopUntracks == [][C8_Step]_vars

\* A stop whose termination command failed, the process still alive and no
\* longer tracked.
C8_Witness ==
    /\ Runs("cmd1", "stop_service", "backend")
    /\ ret["cmd1"] = Err("Failed to stop service")
    /\ Matching(os, "backend") # {}
    /\ "backend" \notin DOMAIN processes

(***************************************************************************)
(* C9: at the moment check_service_health returns a verdict for a          *)
(* registered service that has a tracker record, the record's health       *)
(* status is the verdict returned, be it healthy, unhealthy or unknown.    *)
(***************************************************************************)
C9_Step ==
    \A t \in CmdThreads :
        (Moves(t, "check_service_health") /\ ret'[t].k = "Ok"
            /\ Registered(Cur(t).name) /\ Cur(t).name \in DOMAIN processes')
                => processes'[Cur(t).name].health_status = ret'[t].v

C9_VerdictRecorded == [][C9_Step]_vars

\* A tracked service checked and found unhealthy.
C9_Witness ==
    /\ Runs("cmd1", "check_service_health", "backend")
    /\ ret["cmd1"] = Ok("unhealthy")
    /\ "backend" \in DOMAIN processes
    /\ processes["backend"].health_status = "unhealthy"
    /\ processes["backend"].last_health_check

(***************************************************************************)
(* C10: the verdict of check_service_health is a function of the service's *)
(* configuration and the outcome of the one probe made.  With a URL: one   *)
(* HTTP request and no TCP connect, 2xx gives healthy, any other status or *)
(* a transport failure gives unhealthy.  With no URL but a port: one TCP   *)
(* connect, success gives healthy, failure unhealthy.  With neither: no    *)
(* network call, and the verdict is unknown.                               *)
(***************************************************************************)
C10_VerdictOfProbe ==
    \A t \in CmdThreads :
        \A s \in DOMAIN services :
            (Runs(t, "check_service_health", s) /\ Returned(t)) =>
                LET lg == log[t]
                    v == ret[t].v
                IN /\ ret[t].k = "Ok"
                   /\ UrlOf(s) # "" =>
                         /\ Len(lg) = 1 /\ lg[1].e = "http" /\ lg[1].s = s
                         /\ lg[1].r \in {"2xx", "other_status", "transport_error"}
                         /\ v = IF lg[1].r = "2xx" THEN "healthy" ELSE "unhealthy"
                   /\ (UrlOf(s) = "" /\ PortOf(s) # 0) =>
                         /\ Len(lg) = 1 /\ lg[1].e = "tcp" /\ lg[1].s = s
                         /\ lg[1].r \in {"connected", "refused"}
                         /\ v = IF lg[1].r = "connected" THEN "healthy" ELSE "unhealthy"
                   /\ (UrlOf(s) = "" /\ PortOf(s) = 0) =>
                         /\ lg = <<>>
                         /\ v = "unknown"

\* A service with a port and no URL answers the TCP connect.
C10_Witness ==
    /\ Runs("cmd1", "check_service_health", "backend")
    /\ UrlOf("backend") = ""
    /\ log["cmd1"] = <<Ev("tcp", "backend", "connected")>>
    /\ ret["cmd1"] = Ok("healthy")

(***************************************************************************)
(* C11: start_all_services and stop_all_services attempt every registered  *)
(* service exactly once and return one outcome line per registered         *)
(* service; a member's error does not keep the later members from being    *)
(* attempted.  While the batch runs, the services with a line are those    *)
(* attempted and done with, one line each; the batch itself returns Ok,    *)
(* with one line for every registered service.                             *)
(***************************************************************************)
LinesFor(res, s) ==
    (IF <<s, "Ok">> \in DOMAIN res THEN res[<<s, "Ok">>] ELSE 0)
    + (IF <<s, "Err">> \in DOMAIN res THEN res[<<s, "Err">>] ELSE 0)

BatchRuns(t) ==
    /\ cmd[t].op \in {"start_all_services", "stop_all_services"}
    /\ stack[t] # <<>>
    /\ stack[t][1].pc \notin {"sa_lock", "so_lock"}

C11_BatchAttemptsAll ==
    \A t \in CmdThreads :
        /\ BatchRuns(t) =>
              LET f == stack[t][1]
                  calling == IF f.pc \in {"sa_ret", "so_ret"} THEN {f.name} ELSE {}
              IN \A s \in DOMAIN services :
                    LinesFor(f.res, s) =
                        IF s \in f.todo \cup calling THEN 0 ELSE 1
        /\ (cmd[t].op \in {"start_all_services", "stop_all_services"} /\ ret[t] # NoVal)
              => /\ ret[t].k = "Ok"
                 /\ \A s \in DOMAIN services : LinesFor(ret[t].v, s) = 1

\* backend has failed, and the batch is at the launch of another service.
C11_Witness ==
    /\ BatchRuns("cmd1")
    /\ <<"backend", "Err">> \in DOMAIN stack["cmd1"][1].res
    /\ At("cmd1", "st_launch")
    /\ Cur("cmd1").name = "trading-bot"

(***************************************************************************)
(* C12: start_all_services calls start_service on the registered services  *)
(* in non-decreasing order of their number of direct dependencies: when    *)
(* the batch loop calls start_service on a service, no service with        *)
(* strictly fewer direct dependencies is still to come.                    *)
(***************************************************************************)
C12_Step ==
    \A t \in CmdThreads :
        (/\ cmd[t].op = "start_all_services"
         /\ stack[t] # <<>> /\ stack'[t] # <<>>
         /\ stack[t][1].pc # "sa_ret" /\ stack'[t][1].pc = "sa_ret")
            => \A u \in stack'[t][1].todo :
                   Len(DepsOf(u)) >= Len(DepsOf(stack'[t][1].name))

C12_StartAllOrder == [][C12_Step]_vars

\* web-app, the one service with a dependency, is started last.
C12_Witness ==
    /\ cmd["cmd1"].op = "start_all_services"
    /\ stack["cmd1"] # <<>>
    /\ stack["cmd1"][1].pc = "sa_ret"
    /\ stack["cmd1"][1].name = "web-app"
    /\ stack["cmd1"][1].todo = {}

(***************************************************************************)
(* C13: start_service answers true exactly when the launch command of the  *)
(* service itself succeeded, whether or not the scan then found a process  *)
(* to track.  When the launch did not succeed the answer is false or an    *)
(* error, and the call has written no tracker record for the service.      *)
(***************************************************************************)
C13_StartReturnsLaunch ==
    \A t \in CmdThreads :
        \A s \in DOMAIN services :
            (Runs(t, "start_service", s) /\ Returned(t)) =>
                LET launched == \E i \in Events(log[t], "launch", s) : log[t][i].r = "ok"
                IN /\ (ret[t] = Ok(TRUE)) <=> launched
                   /\ ~launched =>
                         /\ ret[t] = Ok(FALSE) \/ ret[t].k = "Err"
                         /\ Events(log[t], "track", s) = {}

\* Launched, answered true, and the scan found nothing to track.
C13_Witness ==
    /\ Runs("cmd1", "start_service", "backend")
    /\ ret["cmd1"] = Ok(TRUE)
    /\ log["cmd1"] = <<Ev("launch", "backend", "ok")>>
    /\ "backend" \notin DOMAIN processes

(***************************************************************************)
(* C14: track_process on a name that already has a tracker record          *)
(* overwrites the pid and leaves the record's restart counter as it was.   *)
(***************************************************************************)
C14_Step ==
    \A t \in Threads :
        (At(t, "st_track") /\ stack'[t] # stack[t] /\ Cur(t).name \in DOMAIN processes)
            => /\ processes'[Cur(t).name].pid = Cur(t).aux
               /\ processes'[Cur(t).name].restart_count
                     = processes[Cur(t).name].restart_count

C14_TrackKeepsCount == [][C14_Step]_vars

(***************************************************************************)
(* C15: whatever start, restart, health-check and monitor operations       *)
(* interleave, the restart counter of a tracker record never decreases     *)
(* from one state to the next while the record stays in the tracker.       *)
(***************************************************************************)
C15_Step ==
    \A s \in DOMAIN processes \cap DOMAIN processes' :
        processes'[s].restart_count >= processes[s].restart_count

C15_CountNeverDecreases == [][C15_Step]_vars

(***************************************************************************)
(* C16: in each Monitor tick, restart is invoked for a service if and only *)
(* if its auto-restart flag was enabled in that tick's snapshot of the     *)
(* registry and the status the tick resolved for it is not running.  The   *)
(* snapshot is the set of services whose flag is enabled; the tick visits  *)
(* services of its snapshot only; and a step of the monitor invokes        *)
(* restart exactly when it resolves the visited service as not running.    *)
(***************************************************************************)
\* The services the monitor's tick has still to deal with.
Pending(f) == IF f.pc \in {"mon_sleep", "mon_lock"} THEN {} ELSE f.todo \cup {f.name}

\* The monitor is inside a restart_service it invoked.
Restarting(stk) == Len(stk) >= 2 /\ stk[2].fn = "restart_service"

C16_Step ==
    (stack[MonThread] # <<>> /\ stack'[MonThread] # <<>>
        /\ stack'[MonThread] # stack[MonThread]) =>
        LET f == stack[MonThread][1]
            g == stack'[MonThread][1]
            resolves == f.pc = "mon_status_ret" /\ At(MonThread, "gs_read")
        IN /\ f.pc = "mon_lock" =>
                 Pending(g) = {s \in DOMAIN services : services[s].auto_restart}
           /\ f.pc # "mon_lock" => Pending(g) \subseteq Pending(f)
           /\ (Restarting(stack'[MonThread]) /\ ~Restarting(stack[MonThread]))
                 <=> (resolves /\ FoundPids(f.name, Cur(MonThread).aux, processes) = {0})
           /\ Restarting(stack'[MonThread]) =>
                 stack'[MonThread][2].name = g.name /\ g.name \in Pending(g)

C16_TickRestartsStopped == [][C16_Step]_vars

\* A second tick resolves web-app, restarted by the first, as running and
\* goes back to sleep without a restart.
C16_Witness ==
    /\ services["web-app"].auto_restart
    /\ "web-app" \in DOMAIN processes
    /\ processes["web-app"].pid \in DOMAIN os
    /\ At(MonThread, "mon_next")
    /\ log[MonThread] = <<>>

(***************************************************************************)
(* C17: the monitor can have two of its own restart attempts for the same  *)
(* service in flight at the same time, the next tick starting a second     *)
(* restart before the first has finished.  As stated: whenever a restart   *)
(* the monitor invoked is in flight, the monitor's next tick can begin.    *)
(***************************************************************************)
C17_TickDuringRestart ==
    (Restarting(stack[MonThread]) /\ ops < MaxDashOps) =>
        ENABLED MonitorTick(MonThread, MaxDashOps)

\* The restarts the monitor has in flight.
MonitorRestarts(stk) == {i \in 1 .. Len(stk) : stk[i].fn = "restart_service"}

\* The monitor's interval passes: a tick begins.
TickBegins == ops' = ops + 1 /\ stack'[MonThread] # stack[MonThread]

\* C17 as the code has it: the monitor has at most one restart in flight, and
\* a tick begins only when the monitor has none: the restart of line 721-723
\* runs to its end inside the tick that invoked it.
C17_Step ==
    /\ TickBegins => MonitorRestarts(stack[MonThread]) = {}
    /\ Cardinality(MonitorRestarts(stack'[MonThread])) <= 1

C17_OneRestartInFlight == [][C17_Step]_vars

\* The monitor waits out the start of the service it is restarting, while
\* another tick would be within the budget.
C17_Witness ==
    /\ Restarting(stack[MonThread])
    /\ At(MonThread, "st_sleep")
    /\ ops < MaxDashOps

(***************************************************************************)
(* C18: when get_service_status finds a tracker record whose pid is absent *)
(* from the process snapshot and the service declares a port, it scans the *)
(* command lines and reports running with the first matching process; it   *)
(* reports stopped only when the scan finds no match.                      *)
(***************************************************************************)
\* The record of s names a pid that the snapshot does not hold.
StaleRecord(s, snap, trk) == s \in DOMAIN trk /\ trk[s].pid \notin DOMAIN snap

\* What a scan of the snapshot would make of s.
ScanPids(s, snap) == IF Matching(snap, s) # {} THEN Matching(snap, s) ELSE {0}

C18_Step ==
    \A t \in Threads :
        (/\ At(t, "gs_read")
         /\ stack'[t] # stack[t]
         /\ PortOf(Cur(t).name) # 0
         /\ StaleRecord(Cur(t).name, Cur(t).aux, processes)) =>
            \E found_pid \in ScanPids(Cur(t).name, Cur(t).aux) :
                LET d == Deliver(Pop(stack[t]),
                                 Ok(StatusOf(Cur(t).name, found_pid, processes)), log[t])
                IN stack'[t] = d.stk /\ ret'[t] = d.ret /\ log'[t] = d.log

C18_StaleRecordScans == [][C18_Step]_vars

(***************************************************************************)
(* C19: when start_service launches the service's own process, every       *)
(* declared dependency was resolved as running or had its own start        *)
(* complete with launch success: no launch for x follows, in the start of  *)
(* x, a failed launch of a dependency that x found down.                   *)
(***************************************************************************)
C19_NoLaunchAfterFailedDependency ==
    \A t \in Threads :
        \A i, j, k \in 1 .. Len(log[t]) :
            ~(/\ i < j /\ j < k
              /\ log[t][i].e = "dep_down"
              /\ log[t][j] = Ev("launch", log[t][i].s, "fail")
              /\ log[t][k].e = "launch"
              /\ log[t][k].s = log[t][i].r)

(***************************************************************************)
(* C20: if the dependency graph has a cycle and no service on the cycle is *)
(* resolved as running, start_service on a member of the cycle recurses    *)
(* without bound: it never returns and never launches that member's own    *)
(* process; over a registry without a cycle every start_service returns.   *)
(* A start on a member of a cycle that has returned, or has launched a     *)
(* member of the cycle, has resolved a dependency as running before; and   *)
(* a start over a registry with no cycle returns in the end.               *)
(***************************************************************************)
\* Thread t's start_service found a dependency running.
ResolvedRunning(t) == \E i \in 1 .. Len(log[t]) : log[t][i].e = "dep_up"

\* Thread t's start_service issued the launch command of a service on a cycle.
LaunchedOnCycle(t) ==
    \E i \in 1 .. Len(log[t]) : log[t][i].e = "launch" /\ log[t][i].s \in OnCycle

C20_CycleRecurses ==
    \A t \in CmdThreads :
        (cmd[t].op = "start_service" /\ cmd[t].name \in OnCycle /\ ~ResolvedRunning(t)) =>
            ~Returned(t) /\ ~LaunchedOnCycle(t)

C20_AcyclicReturns == OnCycle = {} => <>Returned("cmd1")

C20_StartOverCycle == []C20_CycleRecurses /\ C20_AcyclicReturns

\* start_service("web-app") has gone round the cycle: it is starting web-app
\* a second time, below its start of backend, and nothing was launched.
C20_Witness ==
    /\ services = RegistryCycle
    /\ cmd["cmd1"].name = "web-app"
    /\ Len(stack["cmd1"]) >= 3
    /\ stack["cmd1"][1].name = "web-app"
    /\ stack["cmd1"][2].name = "backend"
    /\ stack["cmd1"][3].name = "web-app"
    /\ stack["cmd1"][3].fn = "start_service"
    /\ ~ResolvedRunning("cmd1")
    /\ ~LaunchedOnCycle("cmd1")

(***************************************************************************)
(* C21: once stop_service(name) has returned, the tracker holds no record  *)
(* for name until a start_service(name) invoked after that return tracks   *)
(* it; a start that was already in flight when the stop ran cannot         *)
(* re-create the record.  Here the only start is the one in flight from    *)
(* the beginning, so after the second window's stop of backend has         *)
(* returned, and as long as that window has sent nothing else, the tracker *)
(* holds no record of backend.                                             *)
(***************************************************************************)
C21_StopLeavesNoRecord ==
    (/\ Runs("cmd2", "stop_service", "backend")
     /\ Returned("cmd2")
     /\ cmd["cmd1"].op = "start_service") =>
        "backend" \notin DOMAIN processes

(***************************************************************************)
(* C22: in every ServiceStatus, uptime is present exactly when a tracker   *)
(* record exists for the service; for an untracked service the health is   *)
(* unknown and the restart count zero; when a record exists, health and    *)
(* restart count are the record's.  The record is the one the tracker      *)
(* holds when get_service_status resolves.                                 *)
(***************************************************************************)
C22_Step ==
    \A t \in CmdThreads :
        (At(t, "gs_read") /\ Len(stack[t]) = 1 /\ stack'[t] = <<>>) =>
            LET s == Cur(t).name
                v == ret'[t].v
            IN /\ ret'[t].k = "Ok"
               /\ v.name = s
               /\ v.uptime <=> s \in DOMAIN processes
               /\ s \notin DOMAIN processes =>
                     v.health = "unknown" /\ v.restart_count = 0
               /\ s \in DOMAIN processes =>
                     /\ v.health = processes[s].health_status
                     /\ v.restart_count = processes[s].restart_count

C22_StatusCopiesRecord == [][C22_Step]_vars

\* The status of backend, tracked with one restart and found healthy.
C22_Witness ==
    /\ Runs("cmd1", "get_service_status", "backend")
    /\ ret["cmd1"].k = "Ok"
    /\ ret["cmd1"].v.uptime
    /\ ret["cmd1"].v.health = "healthy"
    /\ ret["cmd1"].v.restart_count = 1

(***************************************************************************)
(* C23: the set of registered service names is the same in every reachable *)
(* state, and toggle_auto_restart(name, enabled) is the only operation     *)
(* that changes the registry: it sets only the auto-restart flag of the    *)
(* named service and leaves every other field and every other service      *)
(* unchanged.                                                              *)
(***************************************************************************)
C23_Step ==
    /\ DOMAIN services' = DOMAIN Registry
    /\ services' # services =>
          \E t \in CmdThreads :
              /\ At(t, "tg_lock")
              /\ stack'[t] = <<>>
              /\ Registered(Cur(t).name)
              /\ \A s \in DOMAIN services :
                    services'[s] =
                        IF s = Cur(t).name
                        THEN [services[s] EXCEPT !.auto_restart = (cmd[t].enabled)]
                        ELSE services[s]

C23_OnlyToggleWrites == [][C23_Step]_vars

\* toggle_auto_restart("web-app", true) has returned and a later command has
\* run to its end: web-app's flag is the one difference from the registry
\* as built.
C23_Witness ==
    /\ services # Registry
    /\ services = [Registry EXCEPT !["web-app"].auto_restart = TRUE]
    /\ cmd["cmd1"].op # "toggle_auto_restart"
    /\ Returned("cmd1")

(***************************************************************************)
(* C24: a health check or a restart-counter increment for a service that   *)
(* has no tracker record leaves the tracker unchanged: neither operation   *)
(* creates a record, so a record is created only by start_service, after   *)
(* its launch succeeded.                                                   *)
(***************************************************************************)
C24_Step ==
    /\ \A t \in Threads :
          (/\ stack[t] # <<>>
           /\ Cur(t).pc \in {"ch_update", "rs_sleep"}
           /\ stack'[t] # stack[t]
           /\ Cur(t).name \notin DOMAIN processes) => processes' = processes
    /\ \A s \in DOMAIN processes' \ DOMAIN processes :
          \E t \in Threads :
              /\ At(t, "st_track")
              /\ stack'[t] # stack[t]
              /\ Cur(t).name = s
              /\ log[t] # <<>>
              /\ log[t][Len(log[t])] = Ev("launch", s, "ok")

C24_NoRecordFromHealthOrCount == [][C24_Step]_vars

\* restart_service("backend") has gone through its increment with no record
\* of backend in the tracker, and the tracker is still empty.
C24_Witness ==
    /\ Runs("cmd1", "restart_service", "backend")
    /\ Events(log["cmd1"], "inc", "backend") # {}
    /\ Events(log["cmd1"], "launch", "backend") = {}
    /\ processes = NoProc

(***************************************************************************)
(* C25: restart_service goes on to its start phase whenever its stop phase *)
(* returned a boolean, false included (a service with no port, or a        *)
(* termination that failed), and skips both the counter increment and the  *)
(* start only when the stop phase returned an error.                       *)
(***************************************************************************)
\* The events of a log.
Range(lg) == {lg[i] : i \in 1 .. Len(lg)}

\* stop_service(s), called in thread t's command, returned Ok(b) or Err.
StopReturned(t, s, b) ==
    IF b THEN Ev("kill", s, "ok") \in Range(log[t])
    ELSE \/ Ev("kill", s, "fail") \in Range(log[t])
         \/ PortOf(s) = 0 /\ Ev("untrack", s, "") \in Range(log[t])

StopFailed(t, s) == ~Registered(s) \/ Ev("kill", s, "err") \in Range(log[t])

\* Thread t's command went through the increment, and began a start.
Incremented(t, s) == Events(log[t], "inc", s) # {}
StartBegun(t) == stack[t] # <<>> \/ \E i \in 1 .. Len(log[t]) : log[t][i].e = "launch"

C25_RestartAfterBooleanStop ==
    \A t \in CmdThreads :
        cmd[t].op = "restart_service" =>
            LET s == cmd[t].name
            IN /\ (Registered(s) /\ \E b \in BOOLEAN : StopReturned(t, s, b)) =>
                     /\ ~Returned(t) => stack[t][1].pc \in {"rs_sleep", "rs_start_ret"}
                     /\ Returned(t) => Incremented(t, s) /\ StartBegun(t)
                     /\ Incremented(t, s) <=>
                            (Returned(t) \/ stack[t][1].pc = "rs_start_ret")
               /\ (StopFailed(t, s) /\ Returned(t)) =>
                     /\ ret[t].k = "Err"
                     /\ ~Incremented(t, s)
                     /\ ~StartBegun(t)

\* restart_service("trading-bot"): nothing to terminate, stop_service answers
\* false, and the restart has counted and launched.
C25_Witness ==
    /\ Runs("cmd1", "restart_service", "trading-bot")
    /\ StopReturned("cmd1", "trading-bot", FALSE)
    /\ Incremented("cmd1", "trading-bot")
    /\ Ev("launch", "trading-bot", "ok") \in Range(log["cmd1"])
    /\ ret["cmd1"] = Ok(TRUE)

(***************************************************************************)
(* C26: no operation requests the registry lock while holding the tracker  *)
(* lock (the registry lock is always taken first), so status, health,      *)
(* start, stop, restart, toggle and monitor operations running in          *)
(* different threads cannot reach a circular wait on the two locks.        *)
(***************************************************************************)
C26_RegistryLockFirst ==
    /\ \A t \in Threads : WantsServices(t) => tracker_lock # t
    /\ ~\E t, u \in Threads :
           /\ t # u
           /\ services_lock = t /\ WantsTracker(t)
           /\ tracker_lock = u /\ WantsServices(u)

\* One thread holds the registry lock and is about to take the tracker lock
\* inside it, while the other waits for the registry lock and the tracker
\* lock is free.
C26_Witness ==
    /\ services_lock = "cmd1"
    /\ At("cmd1", "sp_untrack")
    /\ WantsServices("cmd2")
    /\ cmd["cmd2"].op = "start_service"
    /\ tracker_lock = Free

(***************************************************************************)
(* C27: during one start_all_services the launch command of each           *)
(* registered service is issued at most once: a dependency launched        *)
(* earlier in the batch is not launched a second time when its dependent   *)
(* is started.  A service whose own start has ended with Ok in this batch  *)
(* had its launch command issued, so no later member's start issues it.    *)
(***************************************************************************)
C27_LaunchedOncePerBatch ==
    \A t \in CmdThreads :
        (cmd[t].op = "start_all_services" /\ BatchRuns(t)) =>
            \A s \in DOMAIN services :
                <<s, "Ok">> \in DOMAIN stack[t][1].res =>
                    \A i \in Events(log[t], "launch", s) : log[t][i].r = "err"

(***************************************************************************)
(* C28: for a registered service with no configured port,                  *)
(* get_service_status reports running only if the tracker holds a record   *)
(* whose pid is in the process snapshot; with no tracker record it reports *)
(* stopped with no pid, whatever the process table contains.               *)
(***************************************************************************)
C28_Step ==
    \A t \in CmdThreads :
        (/\ At(t, "gs_read") /\ Len(stack[t]) = 1 /\ stack'[t] = <<>>
         /\ PortOf(Cur(t).name) = 0) =>
            LET s == Cur(t).name
                v == ret'[t].v
                live == s \in DOMAIN processes /\ processes[s].pid \in DOMAIN Cur(t).aux
            IN /\ ret'[t].k = "Ok"
               /\ v.status = "running" <=> live
               /\ live => v.pid = processes[s].pid
               /\ ~live => v.status = "stopped" /\ v.pid = 0

C28_PortlessNeedsRecord == [][C28_Step]_vars

\* trading-bot runs with its name in its command line and is not tracked:
\* its status is stopped, with no pid.
C28_Witness ==
    /\ Runs("cmd1", "get_service_status", "trading-bot")
    /\ ret["cmd1"].k = "Ok"
    /\ ret["cmd1"].v.status = "stopped"
    /\ ret["cmd1"].v.pid = 0
    /\ processes = NoProc
    /\ Matching(os, "trading-bot") # {}

(***************************************************************************)
(* C29: an operation that fails with NotFound leaves the registry and the  *)
(* tracker exactly as they were: the name lookup precedes every tracker or *)
(* registry write in stop, restart, start, health check and toggle.  The   *)
(* step in which a command answers NotFound is the command's first, and    *)
(* it changes neither the registry nor the tracker.                        *)
(***************************************************************************)
C29_Step ==
    \A t \in CmdThreads :
        (stack[t] # <<>> /\ stack'[t] = <<>> /\ ret'[t] = NotFound) =>
            /\ stack[t] = EntryFrames(cmd[t].op, cmd[t].name, cmd[t].enabled)
            /\ log[t] = <<>> /\ log'[t] = <<>>
            /\ services' = services
            /\ processes' = processes

C29_NotFoundWritesNothing == [][C29_Step]_vars

\* start_service on an unknown name has answered NotFound beside a tracker
\* that holds a record.
C29_Witness ==
    /\ cmd["cmd1"].op = "start_service"
    /\ cmd["cmd1"].name = Ghost
    /\ ret["cmd1"] = NotFound
    /\ processes # NoProc

(***************************************************************************)
(* C30: status resolution is read-only: get_service_status never changes   *)
(* the registry or the tracker, so a stale tracker record (its pid no      *)
(* longer alive) stays in the tracker after any number of status queries   *)
(* and is only removed by stop or overwritten by start.  No step of        *)
(* get_service_status changes the registry or the tracker; a record        *)
(* leaves the tracker only in stop_service's remove_process, and its pid   *)
(* changes only in start_service's track_process.                          *)
(***************************************************************************)
C30_Step ==
    /\ \A t \in Threads :
          Moves(t, "get_service_status") => services' = services /\ processes' = processes
    /\ \A s \in DOMAIN processes :
          /\ s \notin DOMAIN processes' =>
                \E t \in Threads : At(t, "sp_untrack") /\ Moves(t, "stop_service")
                                      /\ Cur(t).name = s
          /\ (s \in DOMAIN processes' /\ processes'[s].pid # processes[s].pid) =>
                \E t \in Threads : At(t, "st_track") /\ Moves(t, "start_service")
                                      /\ Cur(t).name = s

C30_StatusIsReadOnly == [][C30_Step]_vars

\* backend was started and tracked, its process has exited, and a status
\* query has answered stopped: the record of the dead pid is still there.
C30_Witness ==
    /\ Runs("cmd1", "get_service_status", "backend")
    /\ ret["cmd1"].k = "Ok"
    /\ ret["cmd1"].v.status = "stopped"
    /\ "backend" \in DOMAIN processes
    /\ processes["backend"].pid \notin DOMAIN os

(***************************************************************************)
(* C31: in any execution in which toggle_auto_restart(_, true) is never    *)
(* invoked, the monitor never invokes restart, stop or start for any       *)
(* service, because every service is constructed with auto-restart         *)
(* disabled.  The monitor thread never has a call below its own loop, and  *)
(* has done nothing to any service.                                        *)
(***************************************************************************)
C31_QuietMonitor ==
    /\ Len(stack[MonThread]) <= 1
    /\ log[MonThread] = <<>>
    /\ \A s \in DOMAIN services : ~services[s].auto_restart

\* The operator has switched backend's auto-restart off, backend is not
\* running, and a tick of the monitor is taking its snapshot.
C31_Witness ==
    /\ Runs("cmd1", "toggle_auto_restart", "backend")
    /\ ~cmd["cmd1"].enabled
    /\ ret["cmd1"] = Ok(TRUE)
    /\ At(MonThread, "mon_lock")
    /\ os = NoProc

====
